---- MODULE Spec2Model ----
(***************************************************************************)
(* The xv6 buffer cache of src/kernel/bio.c (hashed into NBUCKETS buckets, *)
(* one spinlock per bucket plus a global spinlock for the steal path),     *)
(* as a state machine.  Every thread executes bread/bget, brelse, bpin,    *)
(* bunpin and bwrite one memory access at a time: a lock acquire or        *)
(* release, the load of a field or of a link, the store to a field or to   *)
(* a link are separate steps, so that the accesses the locks do not order  *)
(* can interleave: b->refcnt++ is a load and a store, b->next->prev =      *)
(* b->prev is two loads and a store.                                       *)
(***************************************************************************)
EXTENDS Integers, Sequences, FiniteSets, TLC

\* ---------------------------------------------------------------- bounds
\* The pool is scaled down from NBUF = 30, NBUCKETS = 13.
NTHREADS == 2
PoolSize == 2
BucketCount == 3
MaxBlock == 2
MaxHeld == 2
MaxCalls == 2
MaxPin == 1
\* The single-thread configuration (pool >= 2 * buckets).
SeqPoolSize == 4
SeqBucketCount == 2
SeqMaxBlock == 4
SeqMaxHeld == 4
SeqMaxCalls == 4
\* The small single-thread configuration.
CachePoolSize == 2
CacheBucketCount == 2
CacheMaxBlock == 3
CacheMaxHeld == 3
CacheMaxCalls == 3
CacheMaxPin == 2
MaxData == 1
\* The two-thread configuration with bwrite.
LockMaxBlock == 3
LockMaxHeld == 1
LockMaxCalls == 1

VARIABLES
  NBUF, NBUCKETS,      \* the pool and bucket counts binit was run with
  dev, blockno, valid, refcnt, data,   \* struct buf fields, per node
  slk,                 \* b->lock (sleeplock): owning thread, 0 when free
  next, prev,          \* b->next, b->prev, per node (heads included)
  global_lock, lock,   \* bcache.global_lock, bcache.lock[]: owner, 0 when free
  disk,                \* the device: contents per (dev, blockno)
  pc, a_dev, a_blockno, b, id, new_id,   \* per thread: position, arguments, locals
  reg,                 \* per thread: what the statement in progress has loaded so far
  calls,               \* per thread: bread calls made so far
  held, pins,          \* per thread: entries returned by bread and not yet brelse'd; bpin's not yet bunpin'ed
  res,                 \* per node: reservations (bget, bpin) not yet matched by brelse/bunpin
  panicked,            \* panic() message, "" while running
  last                 \* history of the single-thread runs: the last completed call

cfg == <<NBUF, NBUCKETS>>
meta == <<dev, blockno, valid, refcnt>>
links == <<next, prev>>
locks == <<global_lock, lock>>
locals == <<a_dev, a_blockno, b, id, new_id, reg>>
caller == <<calls, held, pins>>
vars == <<NBUF, NBUCKETS, dev, blockno, valid, refcnt, data, slk, next, prev,
          global_lock, lock, disk, pc, a_dev, a_blockno, b, id, new_id, reg,
          calls, held, pins, res, panicked, last>>

Threads == 1..NTHREADS
Devs == {1}
\* refcnt is a uint.  A node's refcnt is stored as the 32-bit two's complement
\* integer with the same bits: 0 - 1 is stored as -1 and stands for 2^32 - 1.
\* A count is positive as an unsigned number exactly when it is not 0.
Inc(c) == c + 1
Dec(c) == c - 1
Positive(c) == c # 0

\* bcache.buf[0..NBUF-1] are the nodes 0..NBUF-1, bcache.head[i] is the node -(i+1).
HeadOf(i) == -(i + 1)
BufsOf(nb) == 0..(nb - 1)
HeadsOf(nk) == {HeadOf(i) : i \in 0..(nk - 1)}
Bufs == BufsOf(NBUF)
Buckets == 0..(NBUCKETS - 1)
Heads == HeadsOf(NBUCKETS)
Nodes == Bufs \cup Heads

\* ------------------------------------------------------------ list helpers
\* b->next = head.next; b->prev = &head; head.next->prev = b; head.next = b.
HeadInsert(L, h, e) ==
  LET n1 == [L.next EXCEPT ![e] = L.next[h]]
      p1 == [L.prev EXCEPT ![e] = h]
      p2 == [p1 EXCEPT ![n1[h]] = e]
      n2 == [n1 EXCEPT ![h] = e]
  IN  [next |-> n2, prev |-> p2]

\* The entries reached from bcache.head[i] through next, in order (at most n steps).
RECURSIVE Walk(_, _, _, _)
Walk(nx, h, e, n) ==
  IF e = h \/ n = 0 THEN <<>> ELSE <<e>> \o Walk(nx, h, nx[e], n - 1)

ListOf(i) == Walk(next, HeadOf(i), next[HeadOf(i)], NBUF + NBUCKETS)
Members(i) == {ListOf(i)[k] : k \in 1..Len(ListOf(i))}

\* ------------------------------------------------------------------ binit
\* The order in which binit's two loops visit the buffers:
\* for i in 0..NBUCKETS-1, for b = buf+i; b < buf+NBUF; b += NBUCKETS.
RECURSIVE BinitFrom(_, _, _, _, _)
BinitFrom(L, nb, nk, i, e) ==
  IF i >= nk THEN L
  ELSE IF e >= nb THEN BinitFrom(L, nb, nk, i + 1, i + 1)
  ELSE BinitFrom(HeadInsert(L, HeadOf(i), e), nb, nk, i, e + nk)

binit(nb, nk) ==
  LET N == BufsOf(nb) \cup HeadsOf(nk)
      L0 == [next |-> [x \in N |-> x], prev |-> [x \in N |-> x]]
      L == BinitFrom(L0, nb, nk, 0, 0)
  IN  /\ NBUF = nb
      /\ NBUCKETS = nk
      /\ dev = [x \in N |-> 0]
      /\ blockno = [x \in N |-> 0]
      /\ valid = [x \in N |-> 0]
      /\ refcnt = [x \in N |-> 0]
      /\ data = [x \in N |-> 0]
      /\ slk = [x \in N |-> 0]
      /\ next = L.next
      /\ prev = L.prev
      /\ global_lock = 0
      /\ lock = [i \in 0..(nk - 1) |-> 0]
      /\ disk = [k \in Devs \X (0..(MaxBlock + SeqMaxBlock + CacheMaxBlock)) |-> k[2] + 1]
      /\ pc = [t \in Threads |-> "idle"]
      /\ a_dev = [t \in Threads |-> 0]
      /\ a_blockno = [t \in Threads |-> 0]
      /\ b = [t \in Threads |-> 0]
      /\ id = [t \in Threads |-> 0]
      /\ new_id = [t \in Threads |-> 0]
      /\ reg = [t \in Threads |-> [have |-> {}, link |-> 0, val |-> 0]]
      /\ calls = [t \in Threads |-> 0]
      /\ held = [t \in Threads |-> {}]
      /\ pins = [t \in Threads |-> [x \in N |-> 0]]
      /\ res = [x \in N |-> 0]
      /\ panicked = ""
      /\ last = [op |-> "none", buf |-> 0, dev |-> 0, blockno |-> 0, valid |-> 0, data |-> 0]


\* ------------------------------------------------------------ small steps
Running == panicked = ""
At(t, l) == Running /\ pc[t] = l
Goto(t, l) == pc' = [pc EXCEPT ![t] = l]
\* acquire(&lk): spins until the lock is free.
CanAcquire(owner) == owner = 0
\* panic(): the kernel stops; the locks the thread holds stay held.
Panic(t, msg) ==
  /\ panicked' = msg
  /\ Goto(t, "panic")
\* the thread is back in its caller: the locals are dead.
Return(t) ==
  /\ Goto(t, "idle")
  /\ a_dev' = [a_dev EXCEPT ![t] = 0]
  /\ a_blockno' = [a_blockno EXCEPT ![t] = 0]
  /\ b' = [b EXCEPT ![t] = 0]
  /\ id' = [id EXCEPT ![t] = 0]
  /\ new_id' = [new_id EXCEPT ![t] = 0]
  /\ UNCHANGED reg

\* The k-th of the four stores that claim an entry:
\* b->dev = dev; b->blockno = blockno; b->valid = 0; b->refcnt = 1.
ClaimStore(t, k) ==
  CASE k = 1 -> /\ dev' = [dev EXCEPT ![b[t]] = a_dev[t]]
                /\ UNCHANGED <<blockno, valid, refcnt, res>>
    [] k = 2 -> /\ blockno' = [blockno EXCEPT ![b[t]] = a_blockno[t]]
                /\ UNCHANGED <<dev, valid, refcnt, res>>
    [] k = 3 -> /\ valid' = [valid EXCEPT ![b[t]] = 0]
                /\ UNCHANGED <<dev, blockno, refcnt, res>>
    [] k = 4 -> /\ refcnt' = [refcnt EXCEPT ![b[t]] = 1]
                /\ res' = [res EXCEPT ![b[t]] = @ + 1]
                /\ UNCHANGED <<dev, blockno, valid>>

\* A statement that reads shared memory before it writes takes one step for each
\* load and one for the store.  reg[t] holds what the statement thread t is in has
\* loaded so far: the link it will store through and the value it will store (or
\* the count it will add to or take from).  After the store the registers are dead,
\* but for a value the compiler may keep for the next statement (KeptAfter).
NoReg == [have |-> {}, link |-> 0, val |-> 0]
LoadLink(t, x) == reg' = [reg EXCEPT ![t] = [@ EXCEPT !.have = @ \cup {"link"}, !.link = x]]
LoadVal(t, x) == reg' = [reg EXCEPT ![t] = [@ EXCEPT !.have = @ \cup {"val"}, !.val = x]]
Clear(t) == reg' = [reg EXCEPT ![t] = NoReg]

\* The six statements that move entry e to the front of the list of head h:
\*   1  b->next->prev = b->prev        2  b->prev->next = b->next
\*   3  b->next = head.next            4  b->prev = &head
\*   5  head.next->prev = b            6  head.next = b
\* What the k-th of them loads: the link it stores through, the value it stores.
ListLoads(k) ==
  CASE k \in {1, 2} -> {"link", "val"}
    [] k = 3 -> {"val"}
    [] k = 5 -> {"link"}
    [] OTHER -> {}
\* The link the k-th statement stores through, as memory has it now.
ListLink(k, h, e) ==
  CASE k = 1 -> next[e]
    [] k = 2 -> prev[e]
    [] OTHER -> next[h]
\* The value the k-th statement stores, as memory has it now.
ListVal(k, h, e) ==
  CASE k = 1 -> prev[e]
    [] k = 2 -> next[e]
    [] OTHER -> next[h]
\* The registers after the store of the k-th statement, r being the registers
\* before it.  Statement 2 stores through b->prev, which statement 1 has loaded
\* and which the store of statement 1 leaves as it was loaded or sets to that very
\* value: the compiler may keep it in its register (gcc -O does: statement 2 then
\* loads b->next only) or load it again (gcc -O0).  Every other load follows a
\* store that may have changed the location, or a call.
KeptAfter(k, r) ==
  IF k = 1
    THEN {NoReg, [have |-> {"link"}, link |-> r.val, val |-> 0]}
    ELSE {NoReg}
\* The store of the k-th statement, through the link a and of the value v it loaded.
ListStore(k, h, e, a, v) ==
  CASE k = 1 -> prev' = [prev EXCEPT ![a] = v] /\ UNCHANGED next
    [] k = 2 -> next' = [next EXCEPT ![a] = v] /\ UNCHANGED prev
    [] k = 3 -> next' = [next EXCEPT ![e] = v] /\ UNCHANGED prev
    [] k = 4 -> prev' = [prev EXCEPT ![e] = h] /\ UNCHANGED next
    [] k = 5 -> prev' = [prev EXCEPT ![a] = e] /\ UNCHANGED next
    [] k = 6 -> next' = [next EXCEPT ![h] = e] /\ UNCHANGED prev

\* The load of b->refcnt by the thread at b->refcnt++ or b->refcnt--.
CountLoad(t, at) ==
  /\ At(t, at)
  /\ reg[t].have = {}
  /\ LoadVal(t, refcnt[b[t]])
  /\ UNCHANGED <<cfg, meta, data, slk, links, locks, disk, pc, a_dev, a_blockno, b, id, new_id, caller, res, panicked, last>>
\* The store that ends b->refcnt++ or b->refcnt--: c is the count to store.
CountStore(t, at, c) ==
  /\ At(t, at)
  /\ reg[t].have = {"val"}
  /\ refcnt' = [refcnt EXCEPT ![b[t]] = c]
  /\ Clear(t)

\* A variant of holdingsleep that only asks whether the sleep lock is taken.
holdingsleep_Locked(t, e) == slk[e] # 0

\* holdingsleep(&b->lock): the sleep lock is taken, and by the calling thread.
holdingsleep(t, e) == slk[e] = t

\* ------------------------------------------------------------------- bget
\* bread(dev, blockno) calls bget(dev, blockno); id = blockno % NBUCKETS.
BreadCall(t, d, n, maxheld, maxcalls) ==
  /\ At(t, "idle")
  /\ Cardinality(held[t]) < maxheld
  /\ calls[t] < maxcalls
  /\ calls' = [calls EXCEPT ![t] = @ + 1]
  /\ \A e \in held[t] : ~(dev[e] = d /\ blockno[e] = n)
  /\ Goto(t, "bget")
  /\ a_dev' = [a_dev EXCEPT ![t] = d]
  /\ a_blockno' = [a_blockno EXCEPT ![t] = n]
  /\ id' = [id EXCEPT ![t] = n % NBUCKETS]
  /\ UNCHANGED <<cfg, meta, data, slk, links, locks, disk, b, new_id, reg, held, pins, res, panicked, last>>

\* acquire(&bcache.lock[id]).
BgetAcquire(t) ==
  /\ At(t, "bget")
  /\ CanAcquire(lock[id[t]])
  /\ lock' = [lock EXCEPT ![id[t]] = t]
  /\ Goto(t, "hit_init")
  /\ UNCHANGED <<cfg, meta, data, slk, links, global_lock, disk, locals, caller, res, panicked, last>>

\* b = bcache.head[id].next.
HitInit(t) ==
  /\ At(t, "hit_init")
  /\ b' = [b EXCEPT ![t] = next[HeadOf(id[t])]]
  /\ Goto(t, "hit")
  /\ UNCHANGED <<cfg, meta, data, slk, links, locks, disk, a_dev, a_blockno, reg, id, new_id, caller, res, panicked, last>>

\* The test of "Is the block already cached?": b != &bcache.head[id], then
\* the left side of b->dev == dev && b->blockno == blockno.  Off the end of the
\* list the recycle scan starts: b = bcache.head[id].prev.
HitScan(t) ==
  /\ At(t, "hit")
  /\ IF b[t] = HeadOf(id[t])
       THEN /\ b' = [b EXCEPT ![t] = prev[HeadOf(id[t])]]
            /\ Goto(t, "recycle")
       ELSE IF dev[b[t]] = a_dev[t]
       THEN /\ Goto(t, "hit_blockno")
            /\ UNCHANGED b
       ELSE /\ Goto(t, "hit_next")
            /\ UNCHANGED b
  /\ UNCHANGED <<cfg, meta, data, slk, links, locks, disk, a_dev, a_blockno, reg, id, new_id, caller, res, panicked, last>>

\* ... && b->blockno == blockno.
HitBlockno(t) ==
  /\ At(t, "hit_blockno")
  /\ IF blockno[b[t]] = a_blockno[t]
       THEN Goto(t, "hit_inc")
       ELSE Goto(t, "hit_next")
  /\ UNCHANGED <<cfg, meta, data, slk, links, locks, disk, locals, caller, res, panicked, last>>

\* b = b->next.
HitNext(t) ==
  /\ At(t, "hit_next")
  /\ b' = [b EXCEPT ![t] = next[b[t]]]
  /\ Goto(t, "hit")
  /\ UNCHANGED <<cfg, meta, data, slk, links, locks, disk, a_dev, a_blockno, reg, id, new_id, caller, res, panicked, last>>

\* b->refcnt++: the load of b->refcnt.
HitIncLoad(t) == CountLoad(t, "hit_inc")

\* b->refcnt++: the store.
HitInc(t) ==
  /\ CountStore(t, "hit_inc", Inc(reg[t].val))
  /\ res' = [res EXCEPT ![b[t]] = @ + 1]
  /\ Goto(t, "hit_rel")
  /\ UNCHANGED <<cfg, dev, blockno, valid, data, slk, links, locks, disk, a_dev, a_blockno, b, id, new_id, caller, panicked, last>>

\* release(&bcache.lock[id]).
HitRelease(t) ==
  /\ At(t, "hit_rel")
  /\ lock' = [lock EXCEPT ![id[t]] = 0]
  /\ Goto(t, "sleep")
  /\ UNCHANGED <<cfg, meta, data, slk, links, global_lock, disk, locals, caller, res, panicked, last>>

\* The test of the in-bucket recycle scan: b != &bcache.head[id], then
\* b->refcnt == 0.  Off the end of the list: release(&bcache.lock[id]).
RecycleScan(t) ==
  /\ At(t, "recycle")
  /\ IF b[t] = HeadOf(id[t])
       THEN /\ lock' = [lock EXCEPT ![id[t]] = 0]
            /\ Goto(t, "acq_global")
       ELSE IF refcnt[b[t]] = 0
       THEN /\ Goto(t, "recycle_claim")
            /\ UNCHANGED lock
       ELSE /\ Goto(t, "recycle_next")
            /\ UNCHANGED lock
  /\ UNCHANGED <<cfg, meta, data, slk, links, global_lock, disk, locals, caller, res, panicked, last>>

\* b = b->prev.
RecycleNext(t) ==
  /\ At(t, "recycle_next")
  /\ b' = [b EXCEPT ![t] = prev[b[t]]]
  /\ Goto(t, "recycle")
  /\ UNCHANGED <<cfg, meta, data, slk, links, locks, disk, a_dev, a_blockno, reg, id, new_id, caller, res, panicked, last>>

\* b->dev = dev (in-bucket recycle).
RecycleDev(t) ==
  /\ At(t, "recycle_claim")
  /\ ClaimStore(t, 1)
  /\ Goto(t, "recycle_blockno")
  /\ UNCHANGED <<cfg, data, slk, links, locks, disk, locals, caller, panicked>>

\* b->blockno = blockno.
RecycleBlockno(t) ==
  /\ At(t, "recycle_blockno")
  /\ ClaimStore(t, 2)
  /\ Goto(t, "recycle_valid")
  /\ UNCHANGED <<cfg, data, slk, links, locks, disk, locals, caller, panicked, last>>

\* b->valid = 0.
RecycleValid(t) ==
  /\ At(t, "recycle_valid")
  /\ ClaimStore(t, 3)
  /\ Goto(t, "recycle_refcnt")
  /\ UNCHANGED <<cfg, data, slk, links, locks, disk, locals, caller, panicked, last>>

\* b->refcnt = 1.
RecycleRefcnt(t) ==
  /\ At(t, "recycle_refcnt")
  /\ ClaimStore(t, 4)
  /\ Goto(t, "recycle_rel")
  /\ UNCHANGED <<cfg, data, slk, links, locks, disk, locals, caller, panicked, last>>

\* release(&bcache.lock[id]).
RecycleRelease(t) ==
  /\ At(t, "recycle_rel")
  /\ lock' = [lock EXCEPT ![id[t]] = 0]
  /\ Goto(t, "sleep")
  /\ UNCHANGED <<cfg, meta, data, slk, links, global_lock, disk, locals, caller, res, panicked, last>>

\* acquire(&bcache.global_lock).
AcquireGlobal(t) ==
  /\ At(t, "acq_global")
  /\ CanAcquire(global_lock)
  /\ global_lock' = t
  /\ Goto(t, "acq_id")
  /\ UNCHANGED <<cfg, meta, data, slk, links, lock, disk, locals, caller, res, panicked, last>>

\* acquire(&bcache.lock[id]); b = bcache.buf.
AcquireId(t) ==
  /\ At(t, "acq_id")
  /\ CanAcquire(lock[id[t]])
  /\ lock' = [lock EXCEPT ![id[t]] = t]
  /\ b' = [b EXCEPT ![t] = 0]
  /\ Goto(t, "steal")
  /\ UNCHANGED <<cfg, meta, data, slk, links, global_lock, disk, a_dev, a_blockno, reg, id, new_id, caller, res, panicked, last>>

\* The bucket the steal scan locks for entry e: new_id = b->blockno % NBUCKETS.
StealBucket(e) == blockno[e] % NBUCKETS

\* A variant of SkipOwnBucket in which the scan skips nothing.
SkipOwnBucket_Never(nid, i) == FALSE

\* if(new_id == id) continue.
SkipOwnBucket(nid, i) == nid = i

\* Top of one iteration of the pool scan: the loop test b < bcache.buf + NBUF,
\* new_id, the skip of the own bucket.  Off the end of the pool: panic.
StealScan(t) ==
  /\ At(t, "steal")
  /\ IF b[t] >= NBUF
       THEN /\ Panic(t, "bget: no buffers")
            /\ UNCHANGED <<b, new_id>>
       ELSE /\ new_id' = [new_id EXCEPT ![t] = StealBucket(b[t])]
            /\ UNCHANGED panicked
            /\ IF SkipOwnBucket(StealBucket(b[t]), id[t])
                 THEN /\ b' = [b EXCEPT ![t] = b[t] + 1]
                      /\ UNCHANGED pc
                 ELSE /\ Goto(t, "acq_new")
                      /\ UNCHANGED b
  /\ UNCHANGED <<cfg, meta, data, slk, links, locks, disk, a_dev, a_blockno, reg, id, caller, res, last>>

\* acquire(&bcache.lock[new_id]).
AcquireNew(t) ==
  /\ At(t, "acq_new")
  /\ CanAcquire(lock[new_id[t]])
  /\ lock' = [lock EXCEPT ![new_id[t]] = t]
  /\ Goto(t, "steal_chk")
  /\ UNCHANGED <<cfg, meta, data, slk, links, global_lock, disk, locals, caller, res, panicked, last>>

\* if(b->refcnt == 0).
StealCheck(t) ==
  /\ At(t, "steal_chk")
  /\ IF refcnt[b[t]] = 0
       THEN Goto(t, "steal_claim")
       ELSE Goto(t, "steal_else")
  /\ UNCHANGED <<cfg, meta, data, slk, links, locks, disk, locals, caller, res, panicked, last>>

\* else release(&bcache.lock[new_id]); b++.
StealElse(t) ==
  /\ At(t, "steal_else")
  /\ lock' = [lock EXCEPT ![new_id[t]] = 0]
  /\ b' = [b EXCEPT ![t] = b[t] + 1]
  /\ Goto(t, "steal")
  /\ UNCHANGED <<cfg, meta, data, slk, links, global_lock, disk, a_dev, a_blockno, reg, id, new_id, caller, res, panicked, last>>

\* b->dev = dev (steal).
StealDev(t) ==
  /\ At(t, "steal_claim")
  /\ ClaimStore(t, 1)
  /\ Goto(t, "steal_blockno")
  /\ UNCHANGED <<cfg, data, slk, links, locks, disk, locals, caller, panicked>>

\* b->blockno = blockno.
StealBlockno(t) ==
  /\ At(t, "steal_blockno")
  /\ ClaimStore(t, 2)
  /\ Goto(t, "steal_valid")
  /\ UNCHANGED <<cfg, data, slk, links, locks, disk, locals, caller, panicked, last>>

\* b->valid = 0.
StealValid(t) ==
  /\ At(t, "steal_valid")
  /\ ClaimStore(t, 3)
  /\ Goto(t, "steal_refcnt")
  /\ UNCHANGED <<cfg, data, slk, links, locks, disk, locals, caller, panicked, last>>

\* b->refcnt = 1.
StealRefcnt(t) ==
  /\ At(t, "steal_refcnt")
  /\ ClaimStore(t, 4)
  /\ Goto(t, "steal_move")
  /\ UNCHANGED <<cfg, data, slk, links, locks, disk, locals, caller, panicked, last>>

\* One load of the k-th list statement by the thread at position at, for its
\* entry b and the head of its bucket id.  The two operands of statements 1 and
\* 2 are unsequenced: either is loaded first.
RelinkLoad(t, k, at) ==
  /\ At(t, at)
  /\ \E f \in ListLoads(k) \ reg[t].have :
       IF f = "link"
         THEN LoadLink(t, ListLink(k, HeadOf(id[t]), b[t]))
         ELSE LoadVal(t, ListVal(k, HeadOf(id[t]), b[t]))
  /\ UNCHANGED <<cfg, meta, data, slk, links, locks, disk, pc, a_dev, a_blockno, b, id, new_id, caller, res, panicked, last>>

\* The store of the k-th list statement by the thread at position from, once
\* the statement has loaded what it loads.
Relink(t, k, from, to) ==
  /\ At(t, from)
  /\ reg[t].have = ListLoads(k)
  /\ ListStore(k, HeadOf(id[t]), b[t], reg[t].link, reg[t].val)
  /\ \E r \in KeptAfter(k, reg[t]) : reg' = [reg EXCEPT ![t] = r]
  /\ Goto(t, to)
  /\ UNCHANGED <<cfg, meta, data, slk, locks, disk, a_dev, a_blockno, b, id, new_id, caller, res, panicked, last>>

\* b->next->prev = b->prev: the loads of b->next and of b->prev.
StealUnlinkPrevLoad(t) == RelinkLoad(t, 1, "steal_move")
\* b->next->prev = b->prev: the store.
StealUnlinkPrev(t) == Relink(t, 1, "steal_move", "steal_move2")
\* b->prev->next = b->next: the loads of b->prev, unless kept, and of b->next.
StealUnlinkNextLoad(t) == RelinkLoad(t, 2, "steal_move2")
\* b->prev->next = b->next: the store.
StealUnlinkNext(t) == Relink(t, 2, "steal_move2", "steal_move3")
\* b->next = bcache.head[id].next: the load of bcache.head[id].next.
StealSetNextLoad(t) == RelinkLoad(t, 3, "steal_move3")
\* b->next = bcache.head[id].next: the store.
StealSetNext(t) == Relink(t, 3, "steal_move3", "steal_move4")
\* b->prev = &bcache.head[id].
StealSetPrev(t) == Relink(t, 4, "steal_move4", "steal_move5")
\* bcache.head[id].next->prev = b: the load of bcache.head[id].next.
StealInsertPrevLoad(t) == RelinkLoad(t, 5, "steal_move5")
\* bcache.head[id].next->prev = b: the store.
StealInsertPrev(t) == Relink(t, 5, "steal_move5", "steal_move6")
\* bcache.head[id].next = b.
StealInsertNext(t) == Relink(t, 6, "steal_move6", "rel_new")

\* A variant of StealReleaseNew that gives up the global lock in its place.
StealReleaseNew_Global(t) ==
  /\ At(t, "rel_new")
  /\ global_lock' = 0
  /\ Goto(t, "rel_id")
  /\ UNCHANGED <<cfg, meta, data, slk, links, lock, disk, locals, caller, res, panicked, last>>

\* release(&bcache.lock[new_id]).
StealReleaseNew(t) ==
  /\ At(t, "rel_new")
  /\ lock' = [lock EXCEPT ![new_id[t]] = 0]
  /\ Goto(t, "rel_id")
  /\ UNCHANGED <<cfg, meta, data, slk, links, global_lock, disk, locals, caller, res, panicked, last>>

\* release(&bcache.lock[id]).
StealReleaseId(t) ==
  /\ At(t, "rel_id")
  /\ lock' = [lock EXCEPT ![id[t]] = 0]
  /\ Goto(t, "rel_global")
  /\ UNCHANGED <<cfg, meta, data, slk, links, global_lock, disk, locals, caller, res, panicked, last>>

\* A variant of StealReleaseGlobal that goes on without the release.
StealReleaseGlobal_Keep(t) ==
  /\ At(t, "rel_global")
  /\ Goto(t, "sleep")
  /\ UNCHANGED <<cfg, meta, data, slk, links, locks, disk, locals, caller, res, panicked, last>>

\* release(&bcache.global_lock).
StealReleaseGlobal(t) ==
  /\ At(t, "rel_global")
  /\ global_lock' = 0
  /\ Goto(t, "sleep")
  /\ UNCHANGED <<cfg, meta, data, slk, links, lock, disk, locals, caller, res, panicked, last>>

\* acquiresleep(&b->lock); return b.
AcquireSleep(t) ==
  /\ At(t, "sleep")
  /\ slk[b[t]] = 0
  /\ slk' = [slk EXCEPT ![b[t]] = t]
  /\ Goto(t, "bread")
  /\ UNCHANGED <<cfg, meta, data, links, locks, disk, locals, caller, res, panicked, last>>

\* ------------------------------------------------------------------ bread
\* A faulty variant of NeedsRead: bread reads the device whether or not the data is valid.
NeedsRead_Always(e) == TRUE

\* if(!b->valid).
NeedsRead(e) == valid[e] = 0

\* if(!b->valid) ... ; return b.
BreadCheck(t) ==
  /\ At(t, "bread")
  /\ IF NeedsRead(b[t])
       THEN /\ Goto(t, "disk_read")
            /\ UNCHANGED <<locals, held>>
       ELSE /\ held' = [held EXCEPT ![t] = @ \cup {b[t]}]
            /\ Return(t)
  /\ UNCHANGED <<cfg, meta, data, slk, links, locks, disk, calls, pins, res, panicked, last>>

\* virtio_disk_rw(b, 0): the block named by b->dev, b->blockno is read into b->data.
DiskReadIo(t) ==
  /\ At(t, "disk_read")
  /\ data' = [data EXCEPT ![b[t]] = disk[<<dev[b[t]], blockno[b[t]]>>]]
  /\ Goto(t, "set_valid")
  /\ UNCHANGED <<cfg, meta, slk, links, locks, disk, locals, caller, res, panicked, last>>

\* b->valid = 1; return b.
DiskReadDone(t) ==
  /\ At(t, "set_valid")
  /\ valid' = [valid EXCEPT ![b[t]] = 1]
  /\ held' = [held EXCEPT ![t] = @ \cup {b[t]}]
  /\ Return(t)
  /\ UNCHANGED <<cfg, dev, blockno, refcnt, data, slk, links, locks, disk, calls, pins, res, panicked, last>>

\* ----------------------------------------------------------------- bwrite
BwriteCall(t, e) ==
  /\ At(t, "idle")
  /\ e \in held[t]
  /\ Goto(t, "bwrite")
  /\ b' = [b EXCEPT ![t] = e]
  /\ UNCHANGED <<cfg, meta, data, slk, links, locks, disk, a_dev, a_blockno, reg, id, new_id, caller, res, panicked, last>>

\* if(!holdingsleep(&b->lock)) panic("bwrite").
BwriteCheck(t) ==
  /\ At(t, "bwrite")
  /\ IF ~holdingsleep(t, b[t])
       THEN Panic(t, "bwrite")
       ELSE Goto(t, "disk_write") /\ UNCHANGED panicked
  /\ UNCHANGED <<cfg, meta, data, slk, links, locks, disk, locals, caller, res, last>>

\* virtio_disk_rw(b, 1).
DiskWrite(t) ==
  /\ At(t, "disk_write")
  /\ disk' = [disk EXCEPT ![<<dev[b[t]], blockno[b[t]]>>] = data[b[t]]]
  /\ Return(t)
  /\ UNCHANGED <<cfg, meta, data, slk, links, locks, caller, res, panicked, last>>

\* The holder of the sleep lock changes the buffer's data.
Mutate(t, e, v) ==
  /\ At(t, "idle")
  /\ e \in held[t]
  /\ slk[e] = t
  /\ data[e] # v
  /\ data' = [data EXCEPT ![e] = v]
  /\ UNCHANGED <<cfg, meta, slk, links, locks, disk, pc, locals, caller, res, panicked>>

\* ----------------------------------------------------------------- brelse
BrelseCall(t, e) ==
  /\ At(t, "idle")
  /\ e \in held[t]
  /\ Goto(t, "brelse")
  /\ b' = [b EXCEPT ![t] = e]
  /\ UNCHANGED <<cfg, meta, data, slk, links, locks, disk, a_dev, a_blockno, reg, id, new_id, caller, res, panicked, last>>

\* if(!holdingsleep(&b->lock)) panic("brelse").
BrelseCheck(t) ==
  /\ At(t, "brelse")
  /\ IF ~holdingsleep(t, b[t])
       THEN Panic(t, "brelse")
       ELSE Goto(t, "brelse_relsleep") /\ UNCHANGED panicked
  /\ UNCHANGED <<cfg, meta, data, slk, links, locks, disk, locals, caller, res, last>>

\* releasesleep(&b->lock).
BrelseReleaseSleep(t) ==
  /\ At(t, "brelse_relsleep")
  /\ slk' = [slk EXCEPT ![b[t]] = 0]
  /\ Goto(t, "brelse_id")
  /\ UNCHANGED <<cfg, meta, data, links, locks, disk, locals, caller, res, panicked, last>>

\* id = b->blockno % NBUCKETS.
BrelseId(t) ==
  /\ At(t, "brelse_id")
  /\ id' = [id EXCEPT ![t] = blockno[b[t]] % NBUCKETS]
  /\ Goto(t, "brelse_acq")
  /\ UNCHANGED <<cfg, meta, data, slk, links, locks, disk, a_dev, a_blockno, reg, b, new_id, caller, res, panicked, last>>

\* acquire(&bcache.lock[id]).
BrelseAcquire(t) ==
  /\ At(t, "brelse_acq")
  /\ CanAcquire(lock[id[t]])
  /\ lock' = [lock EXCEPT ![id[t]] = t]
  /\ Goto(t, "brelse_dec")
  /\ UNCHANGED <<cfg, meta, data, slk, links, global_lock, disk, locals, caller, res, panicked, last>>

\* b->refcnt--: the load of b->refcnt.
BrelseDecLoad(t) == CountLoad(t, "brelse_dec")

\* b->refcnt--: the store.  The test that follows reads b->refcnt again
\* (BrelseTest; gcc -O0) or branches on the count just stored, with no further
\* load (gcc -O).
BrelseDec(t) ==
  /\ CountStore(t, "brelse_dec", Dec(reg[t].val))
  /\ res' = [res EXCEPT ![b[t]] = @ - 1]
  /\ \E l \in {"brelse_test", IF Dec(reg[t].val) = 0 THEN "brelse_move" ELSE "brelse_rel"} :
       Goto(t, l)
  /\ UNCHANGED <<cfg, dev, blockno, valid, data, slk, links, locks, disk, a_dev, a_blockno, b, id, new_id, caller, panicked, last>>

\* if (b->refcnt == 0), by a load of b->refcnt.
BrelseTest(t) ==
  /\ At(t, "brelse_test")
  /\ IF refcnt[b[t]] = 0
       THEN Goto(t, "brelse_move")
       ELSE Goto(t, "brelse_rel")
  /\ UNCHANGED <<cfg, meta, data, slk, links, locks, disk, locals, caller, res, panicked, last>>

\* b->next->prev = b->prev: the loads of b->next and of b->prev.
BrelseUnlinkPrevLoad(t) == RelinkLoad(t, 1, "brelse_move")
\* b->next->prev = b->prev: the store.
BrelseUnlinkPrev(t) == Relink(t, 1, "brelse_move", "brelse_move2")
\* b->prev->next = b->next: the loads of b->prev, unless kept, and of b->next.
BrelseUnlinkNextLoad(t) == RelinkLoad(t, 2, "brelse_move2")
\* b->prev->next = b->next: the store.
BrelseUnlinkNext(t) == Relink(t, 2, "brelse_move2", "brelse_move3")
\* b->next = bcache.head[id].next: the load of bcache.head[id].next.
BrelseSetNextLoad(t) == RelinkLoad(t, 3, "brelse_move3")
\* b->next = bcache.head[id].next: the store.
BrelseSetNext(t) == Relink(t, 3, "brelse_move3", "brelse_move4")
\* b->prev = &bcache.head[id].
BrelseSetPrev(t) == Relink(t, 4, "brelse_move4", "brelse_move5")
\* bcache.head[id].next->prev = b: the load of bcache.head[id].next.
BrelseInsertPrevLoad(t) == RelinkLoad(t, 5, "brelse_move5")
\* bcache.head[id].next->prev = b: the store.
BrelseInsertPrev(t) == Relink(t, 5, "brelse_move5", "brelse_move6")
\* bcache.head[id].next = b.
BrelseInsertNext(t) == Relink(t, 6, "brelse_move6", "brelse_rel")

\* release(&bcache.lock[id]); brelse returns.
BrelseRelease(t) ==
  /\ At(t, "brelse_rel")
  /\ lock' = [lock EXCEPT ![id[t]] = 0]
  /\ held' = [held EXCEPT ![t] = @ \ {b[t]}]
  /\ Return(t)
  /\ UNCHANGED <<cfg, meta, data, slk, links, global_lock, disk, calls, pins, res, panicked>>

\* ------------------------------------------------------------ bpin, bunpin
\* id = b->blockno % NBUCKETS.
\* The caller has a reference to b: it holds b, or it has pinned b.
BpinCall(t, e, maxpin) ==
  /\ At(t, "idle")
  /\ e \in held[t] \/ pins[t][e] > 0
  /\ pins[t][e] < maxpin
  /\ Goto(t, "bpin")
  /\ b' = [b EXCEPT ![t] = e]
  /\ id' = [id EXCEPT ![t] = blockno[e] % NBUCKETS]
  /\ UNCHANGED <<cfg, meta, data, slk, links, locks, disk, a_dev, a_blockno, reg, new_id, caller, res, panicked, last>>

\* acquire(&bcache.lock[id]).
BpinAcquire(t) ==
  /\ At(t, "bpin")
  /\ CanAcquire(lock[id[t]])
  /\ lock' = [lock EXCEPT ![id[t]] = t]
  /\ Goto(t, "bpin_inc")
  /\ UNCHANGED <<cfg, meta, data, slk, links, global_lock, disk, locals, caller, res, panicked, last>>

\* b->refcnt++: the load of b->refcnt.
BpinIncLoad(t) == CountLoad(t, "bpin_inc")

\* b->refcnt++: the store.
BpinInc(t) ==
  /\ CountStore(t, "bpin_inc", Inc(reg[t].val))
  /\ res' = [res EXCEPT ![b[t]] = @ + 1]
  /\ Goto(t, "bpin_rel")
  /\ UNCHANGED <<cfg, dev, blockno, valid, data, slk, links, locks, disk, a_dev, a_blockno, b, id, new_id, caller, panicked, last>>

\* release(&bcache.lock[id]); bpin returns.
BpinRelease(t) ==
  /\ At(t, "bpin_rel")
  /\ lock' = [lock EXCEPT ![id[t]] = 0]
  /\ pins' = [pins EXCEPT ![t][b[t]] = @ + 1]
  /\ Return(t)
  /\ UNCHANGED <<cfg, meta, data, slk, links, global_lock, disk, calls, held, res, panicked>>

BunpinCall(t, e) ==
  /\ At(t, "idle")
  /\ pins[t][e] > 0
  /\ Goto(t, "bunpin")
  /\ b' = [b EXCEPT ![t] = e]
  /\ id' = [id EXCEPT ![t] = blockno[e] % NBUCKETS]
  /\ UNCHANGED <<cfg, meta, data, slk, links, locks, disk, a_dev, a_blockno, reg, new_id, caller, res, panicked, last>>

\* acquire(&bcache.lock[id]).
BunpinAcquire(t) ==
  /\ At(t, "bunpin")
  /\ CanAcquire(lock[id[t]])
  /\ lock' = [lock EXCEPT ![id[t]] = t]
  /\ Goto(t, "bunpin_dec")
  /\ UNCHANGED <<cfg, meta, data, slk, links, global_lock, disk, locals, caller, res, panicked, last>>

\* b->refcnt--: the load of b->refcnt.
BunpinDecLoad(t) == CountLoad(t, "bunpin_dec")

\* b->refcnt--: the store.
BunpinDec(t) ==
  /\ CountStore(t, "bunpin_dec", Dec(reg[t].val))
  /\ res' = [res EXCEPT ![b[t]] = @ - 1]
  /\ Goto(t, "bunpin_rel")
  /\ UNCHANGED <<cfg, dev, blockno, valid, data, slk, links, locks, disk, a_dev, a_blockno, b, id, new_id, caller, panicked, last>>

\* release(&bcache.lock[id]); bunpin returns.
BunpinRelease(t) ==
  /\ At(t, "bunpin_rel")
  /\ lock' = [lock EXCEPT ![id[t]] = 0]
  /\ pins' = [pins EXCEPT ![t][b[t]] = @ - 1]
  /\ Return(t)
  /\ UNCHANGED <<cfg, meta, data, slk, links, global_lock, disk, calls, held, res, panicked>>

\* ------------------------------------------- bget of the predecessor, bio_after.c
\* The predecessor's bget shares its first lines with bget above (BgetAcquire,
\* the hit loop, b->refcnt++, HitRelease); it has no in-bucket recycle, its pool scan
\* locks lock[new_id] for every entry, and a claimed entry stays on the list it is on.
\* The test of the hit loop, up to b->dev == dev; off the end of the list
\* release(&bcache.lock[id]).
AfterHitScan(t) ==
  /\ At(t, "hit")
  /\ IF b[t] = HeadOf(id[t])
       THEN /\ lock' = [lock EXCEPT ![id[t]] = 0]
            /\ Goto(t, "acq_global")
       ELSE IF dev[b[t]] = a_dev[t]
       THEN /\ Goto(t, "hit_blockno")
            /\ UNCHANGED lock
       ELSE /\ Goto(t, "hit_next")
            /\ UNCHANGED lock
  /\ UNCHANGED <<cfg, meta, data, slk, links, global_lock, disk, locals, caller, res, panicked, last>>

\* The pool scan of the later bget put in the predecessor's place: an entry
\* whose new_id is the target bucket is passed over.
AfterStealScan_Skip(t) ==
  /\ At(t, "steal")
  /\ IF b[t] >= NBUF
       THEN /\ global_lock' = 0
            /\ Goto(t, "after_fail")
            /\ UNCHANGED <<b, new_id>>
       ELSE /\ new_id' = [new_id EXCEPT ![t] = StealBucket(b[t])]
            /\ UNCHANGED global_lock
            /\ IF StealBucket(b[t]) = id[t]
                 THEN /\ b' = [b EXCEPT ![t] = b[t] + 1]
                      /\ UNCHANGED pc
                 ELSE /\ Goto(t, "acq_new")
                      /\ UNCHANGED b
  /\ UNCHANGED <<cfg, meta, data, slk, links, lock, disk, a_dev, a_blockno, reg, id, caller, res, panicked, last>>

\* Top of one iteration of the predecessor's pool scan: the loop test and
\* new_id = b->blockno % NBUCKETS, then straight to acquire(&bcache.lock[new_id]).
\* Off the end of the pool: release(&bcache.global_lock).
AfterStealScan(t) ==
  /\ At(t, "steal")
  /\ IF b[t] >= NBUF
       THEN /\ global_lock' = 0
            /\ Goto(t, "after_fail")
            /\ UNCHANGED new_id
       ELSE /\ new_id' = [new_id EXCEPT ![t] = StealBucket(b[t])]
            /\ Goto(t, "acq_new")
            /\ UNCHANGED global_lock
  /\ UNCHANGED <<cfg, meta, data, slk, links, lock, disk, a_dev, a_blockno, reg, b, id, caller, res, panicked, last>>

\* release(&bcache.lock[id]).
AfterFailRelease(t) ==
  /\ At(t, "after_fail")
  /\ lock' = [lock EXCEPT ![id[t]] = 0]
  /\ Goto(t, "after_panic")
  /\ UNCHANGED <<cfg, meta, data, slk, links, global_lock, disk, locals, caller, res, panicked, last>>

\* panic("bget: no buffers").
AfterFailPanic(t) ==
  /\ At(t, "after_panic")
  /\ Panic(t, "bget: no buffers")
  /\ UNCHANGED <<cfg, meta, data, slk, links, locks, disk, locals, caller, res, last>>

\* b->refcnt = 1 (the predecessor: no list store follows).
AfterStealRefcnt(t) ==
  /\ At(t, "steal_refcnt")
  /\ ClaimStore(t, 4)
  /\ Goto(t, "after_rel_global")
  /\ UNCHANGED <<cfg, data, slk, links, locks, disk, locals, caller, panicked, last>>

\* release(&bcache.global_lock).
AfterReleaseGlobal(t) ==
  /\ At(t, "after_rel_global")
  /\ global_lock' = 0
  /\ Goto(t, "after_rel_id")
  /\ UNCHANGED <<cfg, meta, data, slk, links, lock, disk, locals, caller, res, panicked, last>>

\* release(&bcache.lock[id]).
AfterReleaseId(t) ==
  /\ At(t, "after_rel_id")
  /\ lock' = [lock EXCEPT ![id[t]] = 0]
  /\ Goto(t, "after_rel_new")
  /\ UNCHANGED <<cfg, meta, data, slk, links, global_lock, disk, locals, caller, res, panicked, last>>

\* release(&bcache.lock[new_id]).
AfterReleaseNew(t) ==
  /\ At(t, "after_rel_new")
  /\ lock' = [lock EXCEPT ![new_id[t]] = 0]
  /\ Goto(t, "sleep")
  /\ UNCHANGED <<cfg, meta, data, slk, links, global_lock, disk, locals, caller, res, panicked, last>>

\* ------------------------------------------------- calls outside the contract
\* brelse(b) by any thread on any entry, held by it or not.
BrelseCallAny(t, e) ==
  /\ At(t, "idle")
  /\ Goto(t, "brelse")
  /\ b' = [b EXCEPT ![t] = e]
  /\ UNCHANGED <<cfg, meta, data, slk, links, locks, disk, a_dev, a_blockno, reg, id, new_id, caller, res, panicked, last>>

\* bwrite(b) by any thread on any entry, held by it or not.
BwriteCallAny(t, e) ==
  /\ At(t, "idle")
  /\ Goto(t, "bwrite")
  /\ b' = [b EXCEPT ![t] = e]
  /\ UNCHANGED <<cfg, meta, data, slk, links, locks, disk, a_dev, a_blockno, reg, id, new_id, caller, res, panicked, last>>

\* ---------------------------------------------------------- specifications
\* The history variable last records, for the single-thread runs, the last call among
\* brelse, bpin and bunpin that completed, the entry it was for and what the entry
\* held then; the record is dropped when the entry is claimed for another block or
\* its data changes.  The runs with several threads keep no history.
NoLast == [op |-> "none", buf |-> 0, dev |-> 0, blockno |-> 0, valid |-> 0, data |-> 0]
Completed(op, e) ==
  [op |-> op, buf |-> e, dev |-> dev[e], blockno |-> blockno[e],
   valid |-> valid[e], data |-> data[e]]
Forget(e) == last' = IF last.buf = e THEN NoLast ELSE last
\* The history after a step: upd in the runs that keep it.
History(keep, upd) == IF keep THEN upd ELSE UNCHANGED last

\* bget up to the end of the hit loop, and the return through the hit.
HitSteps(t) ==
  \/ BgetAcquire(t)
  \/ HitInit(t)
  \/ HitScan(t)
  \/ HitBlockno(t)
  \/ HitNext(t)
  \/ HitIncLoad(t)
  \/ HitInc(t)
  \/ HitRelease(t)

\* The in-bucket recycle.
RecycleSteps(t, keep) ==
  \/ RecycleScan(t)
  \/ RecycleNext(t)
  \/ RecycleDev(t) /\ History(keep, Forget(b[t]))
  \/ RecycleBlockno(t)
  \/ RecycleValid(t)
  \/ RecycleRefcnt(t)
  \/ RecycleRelease(t)

\* The pool scan up to the skip.
ScanSteps(t) ==
  \/ AcquireGlobal(t)
  \/ AcquireId(t)
  \/ StealScan(t)

\* The pool scan from acquire(&bcache.lock[new_id]) on.
StealSteps(t, keep) ==
  \/ AcquireNew(t)
  \/ StealCheck(t)
  \/ StealElse(t)
  \/ StealDev(t) /\ History(keep, Forget(b[t]))
  \/ StealBlockno(t)
  \/ StealValid(t)
  \/ StealRefcnt(t)
  \/ StealUnlinkPrevLoad(t)
  \/ StealUnlinkPrev(t)
  \/ StealUnlinkNextLoad(t)
  \/ StealUnlinkNext(t)
  \/ StealSetNextLoad(t)
  \/ StealSetNext(t)
  \/ StealSetPrev(t)
  \/ StealInsertPrevLoad(t)
  \/ StealInsertPrev(t)
  \/ StealInsertNext(t)
  \/ StealReleaseNew(t)
  \/ StealReleaseId(t)
  \/ StealReleaseGlobal(t)

\* bget, then bread from bget's return on.
BreadSteps(t, keep) ==
  \/ HitSteps(t)
  \/ RecycleSteps(t, keep)
  \/ ScanSteps(t)
  \/ StealSteps(t, keep)
  \/ AcquireSleep(t)
  \/ BreadCheck(t)
  \/ DiskReadIo(t)
  \/ DiskReadDone(t)

\* bwrite after the call.
BwriteSteps(t) ==
  \/ BwriteCheck(t)
  \/ DiskWrite(t)

\* brelse after the call.
BrelseSteps(t, keep) ==
  \/ BrelseCheck(t)
  \/ BrelseReleaseSleep(t)
  \/ BrelseId(t)
  \/ BrelseAcquire(t)
  \/ BrelseDecLoad(t)
  \/ BrelseDec(t)
  \/ BrelseTest(t)
  \/ BrelseUnlinkPrevLoad(t)
  \/ BrelseUnlinkPrev(t)
  \/ BrelseUnlinkNextLoad(t)
  \/ BrelseUnlinkNext(t)
  \/ BrelseSetNextLoad(t)
  \/ BrelseSetNext(t)
  \/ BrelseSetPrev(t)
  \/ BrelseInsertPrevLoad(t)
  \/ BrelseInsertPrev(t)
  \/ BrelseInsertNext(t)
  \/ BrelseRelease(t) /\ History(keep, last' = Completed("brelse", b[t]))

\* bpin and bunpin after the call.
PinSteps(t, keep) ==
  \/ BpinAcquire(t)
  \/ BpinIncLoad(t)
  \/ BpinInc(t)
  \/ BpinRelease(t) /\ History(keep, last' = Completed("bpin", b[t]))
  \/ BunpinAcquire(t)
  \/ BunpinDecLoad(t)
  \/ BunpinDec(t)
  \/ BunpinRelease(t) /\ History(keep, last' = Completed("bunpin", b[t]))

\* Two threads on a pool of PoolSize entries in BucketCount buckets: thread 1
\* calls bread, brelse, bpin and bunpin, thread 2 calls bread once and brelse.
Init == binit(PoolSize, BucketCount)
Next ==
  \/ \E d \in Devs, n \in 0..MaxBlock : BreadCall(1, d, n, MaxHeld, MaxCalls)
  \/ \E d \in Devs, n \in 0..MaxBlock : BreadCall(2, d, n, 1, 1)
  \/ \E t \in Threads :
       \/ BreadSteps(t, FALSE)
       \/ \E e \in Nodes : BrelseCall(t, e)
       \/ BrelseSteps(t, FALSE)
  \/ \E e \in Nodes : BpinCall(1, e, MaxPin)
  \/ \E e \in Nodes : BunpinCall(1, e)
  \/ PinSteps(1, FALSE)
Spec == Init /\ [][Next]_vars

\* One thread calling bread and brelse: blocks 0..maxblock, at most maxheld
\* entries held, maxcalls calls of bread.
PlainStep(maxblock, maxheld, maxcalls) ==
  \/ \E d \in Devs, n \in 0..maxblock : BreadCall(1, d, n, maxheld, maxcalls)
  \/ BreadSteps(1, TRUE)
  \/ \E e \in Nodes : BrelseCall(1, e)
  \/ BrelseSteps(1, TRUE)

\* ... calling bwrite too, and changing the data of the buffers it holds.
SeqStep(maxblock, maxheld, maxcalls) ==
  \/ PlainStep(maxblock, maxheld, maxcalls)
  \/ \E e \in Nodes : BwriteCall(1, e)
  \/ BwriteSteps(1)
  \/ \E e \in Nodes, k \in 1..MaxData : Mutate(1, e, 0 - k) /\ Forget(e)

\* ... calling bpin and bunpin too.
PinStep(maxblock, maxheld, maxcalls, maxpin) ==
  \/ PlainStep(maxblock, maxheld, maxcalls)
  \/ \E e \in Nodes : BpinCall(1, e, maxpin)
  \/ \E e \in Nodes : BunpinCall(1, e)
  \/ PinSteps(1, TRUE)

\* One thread on a pool of SeqPoolSize >= 2 * SeqBucketCount entries.
SeqInit == binit(SeqPoolSize, SeqBucketCount)
SeqNext == PlainStep(SeqMaxBlock, SeqMaxHeld, SeqMaxCalls)
SeqSpec == SeqInit /\ [][SeqNext]_vars
\* The scheduler keeps running the thread while it has a step to take.
FairSeqSpec == SeqSpec /\ WF_vars(SeqNext)

\* One thread on the small pool, with bwrite and data changes ...
CacheInit == binit(CachePoolSize, CacheBucketCount)
CacheNext == SeqStep(CacheMaxBlock, CacheMaxHeld, CacheMaxCalls)
CacheSpec == CacheInit /\ [][CacheNext]_vars
\* ... and with bpin and bunpin.
PinNext == PinStep(CacheMaxBlock, CacheMaxHeld, CacheMaxCalls, CacheMaxPin)
PinSpec == CacheInit /\ [][PinNext]_vars

\* Thread 1 calls bread; every thread may call brelse and bwrite on any entry,
\* whoever holds its sleep lock.
MisuseNext ==
  \/ \E d \in Devs, n \in 0..CacheMaxBlock : BreadCall(1, d, n, CacheMaxHeld, CacheMaxCalls)
  \/ BreadSteps(1, FALSE)
  \/ \E t \in Threads, e \in Bufs : BrelseCallAny(t, e)
  \/ \E t \in Threads : BrelseSteps(t, FALSE)
  \/ \E t \in Threads, e \in Bufs : BwriteCallAny(t, e)
  \/ \E t \in Threads : BwriteSteps(t)
MisuseSpec == CacheInit /\ [][MisuseNext]_vars

\* One thread on a pool of 2 entries in 1 bucket, calling bread and brelse.
\* With one bucket new_id == id for every entry, so the pool scan never gets
\* past the skip: the steps from acquire(&bcache.lock[new_id]) on have no
\* reachable position here.
ExhaustInit == binit(2, 1)
ExhaustNext ==
  \/ \E d \in Devs, n \in 0..SeqMaxBlock : BreadCall(1, d, n, SeqMaxHeld, SeqMaxCalls)
  \/ HitSteps(1)
  \/ RecycleSteps(1, TRUE)
  \/ ScanSteps(1)
  \/ AcquireSleep(1)
  \/ BreadCheck(1)
  \/ DiskReadIo(1)
  \/ DiskReadDone(1)
  \/ \E e \in Nodes : BrelseCall(1, e)
  \/ BrelseSteps(1, TRUE)
ExhaustSpec == ExhaustInit /\ [][ExhaustNext]_vars
\* The scheduler keeps running the thread while it has a step to take.
FairExhaustSpec == ExhaustSpec /\ WF_vars(ExhaustNext)

\* Two threads on the pool of Spec: thread 1 calls bread, bwrite, brelse, bpin and
\* bunpin, thread 2 calls bread once and brelse.
LockNext ==
  \/ \E d \in Devs, n \in 0..LockMaxBlock : BreadCall(1, d, n, LockMaxHeld, LockMaxCalls)
  \/ \E d \in Devs, n \in 0..LockMaxBlock : BreadCall(2, d, n, 1, 1)
  \/ \E t \in Threads :
       \/ BreadSteps(t, FALSE)
       \/ \E e \in Nodes : BrelseCall(t, e)
       \/ BrelseSteps(t, FALSE)
  \/ \E e \in Nodes : BwriteCall(1, e)
  \/ BwriteSteps(1)
  \/ \E e \in Nodes : BpinCall(1, e, CacheMaxPin)
  \/ \E e \in Nodes : BunpinCall(1, e)
  \/ PinSteps(1, FALSE)
LockSpec == Init /\ [][LockNext]_vars

\* The predecessor on the pool of Spec: thread 1 calling its bread, bwrite, brelse,
\* bpin and bunpin, thread 2 calling bread once and brelse.
AfterNext ==
  \/ \E d \in Devs, n \in 0..MaxBlock : BreadCall(1, d, n, MaxHeld, MaxCalls)
  \/ \E d \in Devs, n \in 0..MaxBlock : BreadCall(2, d, n, 1, 1)
  \/ \E t \in Threads :
       \/ BgetAcquire(t)
       \/ HitInit(t)
       \/ AfterHitScan(t)
       \/ HitBlockno(t)
       \/ HitNext(t)
       \/ HitIncLoad(t)
       \/ HitInc(t)
       \/ HitRelease(t)
       \/ AcquireGlobal(t)
       \/ AcquireId(t)
       \/ AfterStealScan(t)
       \/ AfterFailRelease(t)
       \/ AfterFailPanic(t)
       \/ AcquireNew(t)
       \/ StealCheck(t)
       \/ StealElse(t)
       \/ StealDev(t) /\ UNCHANGED last
       \/ StealBlockno(t)
       \/ StealValid(t)
       \/ AfterStealRefcnt(t)
       \/ AfterReleaseGlobal(t)
       \/ AfterReleaseId(t)
       \/ AfterReleaseNew(t)
       \/ AcquireSleep(t)
       \/ BreadCheck(t)
       \/ DiskReadIo(t)
       \/ DiskReadDone(t)
       \/ \E e \in Nodes : BrelseCall(t, e)
       \/ BrelseSteps(t, FALSE)
  \/ \E e \in Nodes : BwriteCall(1, e)
  \/ BwriteSteps(1)
  \/ \E e \in Nodes : BpinCall(1, e, MaxPin)
  \/ \E e \in Nodes : BunpinCall(1, e)
  \/ PinSteps(1, FALSE)
AfterSpec == Init /\ [][AfterNext]_vars

\* ------------------------------------------------------------------ claims
\* Thread t holds the sleep lock of entry e.
HoldsToken(t, e) == slk[e] = t
\* The buckets whose list, followed through nx from its head, reaches e.
BucketsOf(nx, e) ==
  {i \in Buckets : \E k \in 1..Len(Walk(nx, HeadOf(i), nx[HeadOf(i)], NBUF + NBUCKETS)) :
                     Walk(nx, HeadOf(i), nx[HeadOf(i)], NBUF + NBUCKETS)[k] = e}

\* C1: when bget(dev, blockno) returns b (the step out of acquiresleep), b.dev = dev,
\* b.blockno = blockno and the caller holds b's sleep lock.
C1_BgetReturnsRequested ==
  [][\A t \in Threads :
       (pc[t] = "sleep" /\ pc'[t] = "bread") =>
         /\ dev'[b[t]] = a_dev[t]
         /\ blockno'[b[t]] = a_blockno[t]
         /\ slk'[b[t]] = t]_vars

\* C2: two threads never hold, at the same time, the sleep locks of entries
\* (the same or different ones) that carry the same (dev, blockno).
C2_BlockExclusive ==
  \A t1, t2 \in Threads : \A e1, e2 \in Nodes :
    (t1 # t2 /\ HoldsToken(t1, e1) /\ HoldsToken(t2, e2)) =>
      ~(dev[e1] = dev[e2] /\ blockno[e1] = blockno[e2])

\* C3: no two distinct pool entries with refcnt > 0 carry the same (dev, blockno).
C3_NoDuplicateLive ==
  \A e1, e2 \in Bufs :
    (e1 # e2 /\ Positive(refcnt[e1]) /\ Positive(refcnt[e2])) =>
      ~(dev[e1] = dev[e2] /\ blockno[e1] = blockno[e2])

\* C4: a step changes an entry's dev or blockno only when the entry's refcnt is 0.
C4_EvictionSafety ==
  [][\A e \in Nodes :
       (dev'[e] # dev[e] \/ blockno'[e] # blockno[e]) => refcnt[e] = 0]_vars

\* C5: every entry's refcnt equals the number of bget and bpin reservations of it
\* that no completed brelse or bunpin has matched yet.
C5_RefcntConservation == \A e \in Nodes : refcnt[e] = res[e]

\* C7: when bget panics with "bget: no buffers", every pool entry has refcnt > 0.
C7_PanicOnlyWhenFull ==
  panicked = "bget: no buffers" => \A e \in Bufs : Positive(refcnt[e])

\* C6: with NBUF >= 2 * NBUCKETS and every thread holding fewer than NBUF entries,
\* every call of bget eventually returns.
C6_BgetEventuallyReturns ==
  \A t \in Threads :
    (NBUF >= 2 * NBUCKETS /\ Cardinality(held[t]) < NBUF /\ pc[t] = "bget")
      ~> (pc[t] = "bread")

\* C8: a bread of the block the thread released last, whose entry was valid then and
\* has not been claimed for another block since, returns that entry, valid, with the
\* data it held at the release, and returns without a device read.
C8_CacheSemantics ==
  [][(/\ pc[1] \in {"bread", "set_valid"}
      /\ pc'[1] = "idle"
      /\ last.op = "brelse"
      /\ last.valid = 1
      /\ last.dev = a_dev[1]
      /\ last.blockno = a_blockno[1])
     => (/\ pc[1] = "bread"
         /\ b[1] = last.buf
         /\ valid'[last.buf] = 1
         /\ data'[last.buf] = last.data)]_vars

\* The thread holds again the entry it released, after a bread that found it cached:
\* the entry carries the data the thread wrote (and wrote to the device) before.
C8_Witness ==
  /\ pc[1] = "idle"
  /\ last.op = "brelse"
  /\ last.buf \in held[1]
  /\ last.data < 0
  /\ data[last.buf] = last.data
  /\ disk[<<last.dev, last.blockno>>] = last.data
  /\ dev[last.buf] = last.dev
  /\ blockno[last.buf] = last.blockno

\* The positions of a thread inside brelse.
BrelsePositions ==
  {"brelse", "brelse_relsleep", "brelse_id", "brelse_acq", "brelse_dec", "brelse_test",
   "brelse_move", "brelse_move2", "brelse_move3", "brelse_move4", "brelse_move5",
   "brelse_move6", "brelse_rel"}

\* C9: brelse(b) releases the token; its decrement (the store of b->refcnt--) takes
\* exactly 1 from b.refcnt while the thread holds the lock of the bucket whose list b is on; when the
\* count reached 0 it moves b, within the list b is on, to the head, so that b is
\* first on that list when brelse returns; no step of brelse changes the bucket
\* of another entry, a dev, blockno or valid, or another entry's refcnt.
C9_BrelseFrame ==
  [][\A t \in Threads :
       /\ (pc[t] = "brelse_relsleep" /\ pc'[t] # pc[t]) => slk'[b[t]] = 0
       /\ (pc[t] = "brelse_dec" /\ pc'[t] # pc[t]) =>
            /\ refcnt'[b[t]] = refcnt[b[t]] - 1
            /\ \E i \in BucketsOf(next, b[t]) : lock[i] = t
       /\ (pc[t] = "brelse_move" /\ pc'[t] # pc[t]) => BucketsOf(next, b[t]) = {id[t]}
       /\ (pc[t] = "brelse_rel" /\ pc'[t] # pc[t] /\ refcnt[b[t]] = 0) =>
            /\ BucketsOf(next, b[t]) = {id[t]}
            /\ next[HeadOf(id[t])] = b[t]
       /\ (pc[t] \in BrelsePositions /\ pc'[t] # pc[t]) =>
            /\ \A x \in Nodes \ {b[t]} : BucketsOf(next', x) = BucketsOf(next, x)
            /\ \A x \in Nodes \ {b[t]} : refcnt'[x] = refcnt[x]
            /\ pc[t] # "brelse_dec" => refcnt'[b[t]] = refcnt[b[t]]
            /\ dev' = dev /\ blockno' = blockno /\ valid' = valid]_vars

\* C10: bpin(b) goes on to its increment whether or not the caller holds b's sleep
\* lock; the increment adds exactly 1 to b.refcnt and bunpin's decrement takes
\* exactly 1 from it, each loaded and stored while the thread holds the lock of the
\* bucket whose list b is on; when bunpin brought the count to 0 it has moved b to
\* the head of its bucket's list, so that b is first on that list when bunpin
\* returns, as after brelse.
C10_PinUnpin ==
  [][\A t \in Threads :
       /\ (pc[t] = "bpin" /\ pc'[t] # pc[t]) => pc'[t] = "bpin_inc"
       /\ (pc[t] = "bpin_inc" /\ pc'[t] # pc[t]) =>
            refcnt'[b[t]] = refcnt[b[t]] + 1
       /\ (pc[t] = "bunpin_dec" /\ pc'[t] # pc[t]) =>
            refcnt'[b[t]] = refcnt[b[t]] - 1
       /\ (pc[t] \in {"bpin_inc", "bunpin_dec"} /\ (pc'[t] # pc[t] \/ reg'[t] # reg[t])) =>
            \E i \in BucketsOf(next, b[t]) : lock[i] = t
       /\ (pc[t] = "bunpin_rel" /\ pc'[t] # pc[t] /\ refcnt[b[t]] = 0) =>
            /\ BucketsOf(next, b[t]) = {id[t]}
            /\ next[HeadOf(id[t])] = b[t]]_vars

\* C11: a brelse or bwrite by a thread that does not hold the entry's sleep lock
\* (free, or held by another thread) panics, and from the call to the panic no
\* lock, sleep lock, refcnt, link, identity, data or disk content changes.
C11_MisuseIsFatal ==
  [][\A t \in Threads :
       /\ (pc[t] = "idle" /\ pc'[t] \in {"brelse", "bwrite"}) =>
            UNCHANGED <<meta, data, slk, links, locks, disk>>
       /\ (pc[t] \in {"brelse", "bwrite"} /\ pc'[t] # pc[t] /\ slk[b[t]] # t) =>
            /\ pc'[t] = "panic"
            /\ panicked' = pc[t]
            /\ UNCHANGED <<meta, data, slk, links, locks, disk>>]_vars

\* A thread has panicked in brelse on an entry whose sleep lock another thread holds.
C11_Witness ==
  /\ panicked = "brelse"
  /\ \E t \in Threads : pc[t] = "panic" /\ slk[b[t]] # 0 /\ slk[b[t]] # t

\* C12: with 2 entries in 1 bucket, a bget for a third distinct block while two
\* distinct blocks are held never returns an entry and ends in
\* panic("bget: no buffers").
C12_ExhaustionPanics ==
  /\ []((pc[1] = "bget" /\ Cardinality(held[1]) = 2) => [](pc[1] # "bread"))
  /\ ((pc[1] = "bget" /\ Cardinality(held[1]) = 2) ~> (panicked = "bget: no buffers"))

\* The third bget has panicked with both entries held for two distinct blocks.
C12_Witness ==
  /\ NBUF = 2 /\ NBUCKETS = 1
  /\ panicked = "bget: no buffers"
  /\ held[1] = {0, 1}
  /\ blockno[0] # blockno[1]
  /\ a_blockno[1] \notin {blockno[0], blockno[1]}

\* C13: every step of bget, brelse, bpin or bunpin that loads or stores an
\* entry's refcnt in order to change it, or that loads or stores a link in order
\* to move the entry, is taken while the thread holds the lock of the bucket
\* whose list contains the entry; the relocation of the steal also holds the
\* global lock.
C13_OwningBucketLock ==
  [][\A t \in Threads :
       /\ (/\ pc[t] \in {"hit_inc", "recycle_refcnt", "steal_refcnt", "steal_move",
                          "brelse_dec", "brelse_move", "bpin_inc", "bunpin_dec"}
           /\ (pc'[t] # pc[t] \/ reg'[t] # reg[t])) =>
            /\ BucketsOf(next, b[t]) # {}
            /\ \A i \in BucketsOf(next, b[t]) : lock[i] = t
       /\ (/\ pc[t] \in {"steal_move", "steal_move2", "steal_move3", "steal_move4",
                          "steal_move5", "steal_move6"}
           /\ (pc'[t] # pc[t] \/ reg'[t] # reg[t])) =>
            global_lock = t /\ lock[id[t]] = t
       /\ (/\ pc[t] \in {"brelse_move2", "brelse_move3", "brelse_move4", "brelse_move5",
                          "brelse_move6"}
           /\ (pc'[t] # pc[t] \/ reg'[t] # reg[t])) =>
            lock[id[t]] = t]_vars

\* Every entry is on the list of exactly one bucket, and next and prev mirror each other.
WellFormed ==
  /\ \A e \in Bufs : Cardinality(BucketsOf(next, e)) = 1
  /\ \A x \in Nodes : prev[next[x]] = x /\ next[prev[x]] = x

\* C14: whenever no bucket lock is held, each of the NBUF entries is on exactly
\* one bucket's circular doubly-linked list, with next and prev consistent.
C14_ListsWellFormed == (\A i \in Buckets : lock[i] = 0) => WellFormed

\* C15: whenever no bucket lock is held, every entry with refcnt > 0 is on the
\* list of bucket blockno % NBUCKETS (and on no other), the bucket brelse, bpin
\* and bunpin compute from b->blockno.
C15_LiveInOwnBucket ==
  (\A i \in Buckets : lock[i] = 0) =>
    \A e \in Bufs : Positive(refcnt[e]) => BucketsOf(next, e) = {blockno[e] % NBUCKETS}

\* The bucket locks thread t holds.
BucketLocksOf(lk, t) == {i \in Buckets : lk[i] = t}

\* C16: a thread takes the global lock only while it holds no bucket lock, and
\* gives it up only after it has released every bucket lock it took under it.
C16_LockOrdering ==
  [][\A t \in Threads :
       /\ (global_lock # t /\ global_lock' = t) => BucketLocksOf(lock, t) = {}
       /\ (global_lock = t /\ global_lock' # t) => BucketLocksOf(lock, t) = {}]_vars

\* A thread that stole an entry has released both bucket locks and still holds
\* the global lock.
C16_Witness ==
  \E t \in Threads :
    /\ pc[t] = "rel_global"
    /\ global_lock = t
    /\ BucketLocksOf(lock, t) = {}
    /\ b[t] \in Members(id[t])

\* C17: no thread is about to acquire a bucket lock it holds; a thread takes a
\* bucket lock while holding another only under the global lock, which it took
\* while holding no bucket lock; a thread holding two bucket locks holds the
\* global lock.
C17_NoRecursiveBucketLock ==
  [][\A t \in Threads :
       /\ pc'[t] \in {"bget", "acq_id", "brelse_acq", "bpin", "bunpin"} => lock'[id'[t]] # t
       /\ pc'[t] = "acq_new" => lock'[new_id'[t]] # t
       /\ \A i \in Buckets :
            (lock[i] # t /\ lock'[i] = t /\ BucketLocksOf(lock, t) # {}) => global_lock = t
       /\ (global_lock # t /\ global_lock' = t) => BucketLocksOf(lock', t) = {}
       /\ Cardinality(BucketLocksOf(lock', t)) >= 2 => global_lock' = t]_vars

\* A thread holds the global lock and two bucket locks.
C17_Witness ==
  \E t \in Threads :
    /\ Cardinality(BucketLocksOf(lock, t)) = 2
    /\ global_lock = t
    /\ pc[t] = "steal_chk"

\* C18: an entry whose sleep lock a thread holds, or waits for in bget, has
\* refcnt >= 1; so does the entry bget is returning.
C18_TokenImpliesReference ==
  /\ \A e \in Bufs : slk[e] # 0 => Positive(refcnt[e])
  /\ \A t \in Threads : pc[t] \in {"sleep", "bread", "disk_read", "set_valid"} => Positive(refcnt[b[t]])

\* C19: a thread at acquiresleep in bget or at virtio_disk_rw in bread or bwrite
\* holds neither the global lock nor a bucket lock.
C19_NoSpinlockAcrossBlocking ==
  \A t \in Threads :
    pc[t] \in {"sleep", "disk_read", "disk_write"} =>
      global_lock # t /\ BucketLocksOf(lock, t) = {}

\* A thread is blocked in bget's acquiresleep on an entry another thread holds,
\* and holds no spinlock.
C19_Witness ==
  \E t \in Threads :
    /\ pc[t] = "sleep"
    /\ slk[b[t]] # 0 /\ slk[b[t]] # t
    /\ global_lock # t /\ BucketLocksOf(lock, t) = {}

\* The list of bucket i in the order of the recycle loop: from bcache.head[i].prev,
\* the least recently used end, through prev.
TailFirst(i) == Walk(prev, HeadOf(i), prev[HeadOf(i)], NBUF + NBUCKETS)

\* C20: on a miss in bucket id with a free entry on its list, bget picks the
\* free entry closest to the tail, stores dev, blockno, valid = 0 and refcnt = 1
\* into it while it is free and on that list, leaves every link as it is, and
\* holds only lock[id] (never the global lock or another bucket's lock); it goes
\* on to the pool scan only when the bucket has no free entry.
C20_InBucketRecycle ==
  [][\A t \in Threads :
       /\ (pc[t] = "recycle" /\ pc'[t] = "recycle_claim") =>
            /\ b[t] \in Members(id[t])
            /\ \E k \in 1..Len(TailFirst(id[t])) :
                 /\ TailFirst(id[t])[k] = b[t]
                 /\ \A j \in 1..(k - 1) : refcnt[TailFirst(id[t])[j]] # 0
       /\ (/\ pc[t] \in {"recycle_claim", "recycle_blockno", "recycle_valid", "recycle_refcnt"}
           /\ pc'[t] # pc[t]) =>
            /\ b[t] \in Members(id[t])
            /\ refcnt[b[t]] = 0
       /\ (pc[t] = "recycle_refcnt" /\ pc'[t] # pc[t]) =>
            /\ dev'[b[t]] = a_dev[t] /\ blockno'[b[t]] = a_blockno[t]
            /\ valid'[b[t]] = 0 /\ refcnt'[b[t]] = 1
       /\ (/\ pc[t] \in {"recycle", "recycle_next", "recycle_claim", "recycle_blockno",
                          "recycle_valid", "recycle_refcnt", "recycle_rel"}
           /\ pc'[t] # pc[t]) =>
            /\ next' = next /\ prev' = prev
            /\ global_lock # t
            /\ BucketLocksOf(lock, t) = {id[t]}
       /\ (pc[t] = "recycle_rel" /\ pc'[t] # pc[t]) => BucketLocksOf(lock', t) = {}
       /\ (pc[t] = "recycle" /\ pc'[t] = "acq_global") =>
            \A e \in Members(id[t]) : refcnt[e] # 0]_vars

\* A thread is between its store of dev and its store of valid = 0 into entry e.
MidClaim(e) ==
  \E t \in Threads :
    b[t] = e /\ pc[t] \in {"recycle_blockno", "recycle_valid", "steal_blockno", "steal_valid"}

\* The data of a valid entry is the content of the block the entry names.
\* (No run of Spec writes, so the content of a block is the disk's.)
Fresh(e) == (valid[e] = 1 /\ ~MidClaim(e)) => data[e] = disk[<<dev[e], blockno[e]>>]

\* C21: every step that changes an entry's dev or blockno is one of the stores
\* of a claim, whose next stores set valid = 0; and in every state a valid
\* entry that no thread is claiming holds the data of its current (dev, blockno),
\* so a bread that returns without a device read returns the data of the
\* entry's current identity.
C21_ValidImpliesFresh ==
  /\ [][\A e \in Bufs : (dev'[e] # dev[e] \/ blockno'[e] # blockno[e]) => MidClaim(e)']_vars
  /\ [](\A e \in Bufs : Fresh(e))

\* C22: in the predecessor, on a miss, whenever the pool scan examines an entry
\* whose blockno mod NBUCKETS is the target bucket index id, the thread goes on
\* to acquire lock[new_id] with new_id = id while it holds lock[id]: it attempts
\* to take a bucket lock it already holds.
C22_PredecessorSelfLock ==
  [][\A t \in Threads :
       (/\ pc[t] = "steal"
        /\ pc'[t] # pc[t] \/ b'[t] # b[t]
        /\ b[t] < NBUF
        /\ blockno[b[t]] % NBUCKETS = id[t]) =>
         /\ pc'[t] = "acq_new"
         /\ b'[t] = b[t]
         /\ new_id'[t] = id[t]
         /\ lock'[new_id'[t]] = t]_vars

\* A thread is at acquire(&bcache.lock[new_id]) for an entry of its target
\* bucket index, holding that lock.
C22_Witness ==
  \E t \in Threads :
    /\ pc[t] = "acq_new"
    /\ blockno[b[t]] % NBUCKETS = id[t]
    /\ new_id[t] = id[t]
    /\ lock[new_id[t]] = t
    /\ global_lock = t

====
